---- MODULE Spec2Model ----
(***************************************************************************)
(* Changelog automation (scripts/changelog/utils.py and                    *)
(* scripts/changelog/update-changelog.py).                                 *)
(*                                                                         *)
(* Text (the changelog document, an entry, a commit subject, a URL) is a   *)
(* sequence of tokens.  A token is a string standing for that run of       *)
(* characters; "\n" and " " are tokens of their own, so that the regular   *)
(* expressions and the substring tests of the code are evaluated over the  *)
(* token sequence exactly as Python evaluates them over the characters.    *)
(* No token other than NL and SP starts or ends with whitespace, and no    *)
(* token other than ANCHOR and ULINK contains their text.                  *)
(***************************************************************************)
EXTENDS Integers, Sequences, FiniteSets, TLC

VARIABLES
  exists,     \* CHANGELOG.md exists
  file,       \* content of CHANGELOG.md
  pkg,        \* package.json, as the code reads it
  commits,    \* raw commits since the last tag (git collaborator)
  orig,       \* content of CHANGELOG.md before the first operation
  prev,       \* content of CHANGELOG.md before the last operation
  log,        \* the update_changelog_file calls made so far, oldest first
  req,        \* arguments of get_next_version
  res,        \* result of get_next_version
  pc,         \* position of update_changelog
  args,       \* command-line arguments of update_changelog
  version,    \* update_changelog's local `version`
  changes,    \* update_changelog's local `changes`
  passed,     \* the checks update_changelog has passed in this run
  writes      \* number of writes of CHANGELOG.md in this run

vars == <<exists, file, pkg, commits, orig, prev, log, req, res,
          pc, args, version, changes, passed, writes>>

envVars    == <<exists, file, pkg, commits>>
spliceVars == <<orig, prev, log>>
verVars    == <<req, res>>
runVars    == <<pc, args, version, changes, passed, writes>>

Max(S) == CHOOSE x \in S : \A y \in S : y <= x
Min(S) == CHOOSE x \in S : \A y \in S : x <= y

\* ------------------------------------------------------------------ tokens

NL     == "\n"
SP     == " "
ANCHOR == "## [Unreleased]"
ULINK  == "[Unreleased]:"

\* \s of the regular expressions
IsSpace(t) == t \in {NL, SP}

\* the index of the last token of the line that holds token i
RECURSIVE LineEnd(_, _)
LineEnd(c, i) ==
  IF i < Len(c) /\ c[i + 1] # NL THEN LineEnd(c, i + 1) ELSE i

\* the lines of a text, as str.split("\n") gives them
RECURSIVE Lines(_)
Lines(c) ==
  IF \A i \in 1..Len(c) : c[i] # NL THEN <<c>>
  ELSE LET k == Min({i \in 1..Len(c) : c[i] = NL})
       IN <<SubSeq(c, 1, k - 1)>> \o Lines(SubSeq(c, k + 1, Len(c)))

\* s occurs in c as a contiguous run of tokens starting at i
OccursAt(c, i, s) ==
  /\ i + Len(s) - 1 <= Len(c)
  /\ \A k \in 1..Len(s) : c[i + k - 1] = s[k]

\* the least index in lo..Len(c) at which s occurs in c, or 0
Find(c, lo, s) ==
  LET at == {i \in lo..Len(c) : OccursAt(c, i, s)}
  IN IF at = {} THEN 0 ELSE Min(at)

\* ------------------------------------------------------- format_changelog

ordered_categories ==
  <<"Added", "Changed", "Deprecated", "Removed", "Fixed", "Security">>

Categories == {ordered_categories[i] : i \in 1..Len(ordered_categories)}

NoChanges == [c \in Categories |-> <<>>]

RECURSIVE format_items(_)
format_items(items) ==
  IF items = <<>> THEN <<>>
  ELSE <<"- ">> \o Head(items) \o <<NL>> \o format_items(Tail(items))

\* (mutant) the emptiness test of line 284 dropped
RECURSIVE format_categories_all_headers(_, _)
format_categories_all_headers(chg, k) ==
  IF k > Len(ordered_categories) THEN <<>>
  ELSE <<NL, "### ", ordered_categories[k], NL, NL>>
       \o format_items(chg[ordered_categories[k]])
       \o format_categories_all_headers(chg, k + 1)

RECURSIVE format_categories(_, _)
format_categories(chg, k) ==
  IF k > Len(ordered_categories) THEN <<>>
  ELSE LET category == ordered_categories[k]
       IN (IF Len(chg[category]) > 0
           THEN <<NL, "### ", category, NL, NL>> \o format_items(chg[category])
           ELSE <<>>)
          \o format_categories(chg, k + 1)

entry_header(ver, today) == <<"## [", ver, "] - ", today>>

format_changelog(chg, ver, today) ==
  entry_header(ver, today) \o <<NL>> \o format_categories(chg, 1)

\* -------------------------------------------------- update_version_links

PLACEHOLDER_URL == <<"https://github.com/org/repo">>

\* str.replace(old, ""): every occurrence of the token goes
RECURSIVE remove_all(_, _)
remove_all(u, old) ==
  IF u = <<>> THEN <<>>
  ELSE (IF Head(u) = old THEN <<>> ELSE <<Head(u)>>) \o remove_all(Tail(u), old)

\* repo_url.replace(".git", "").replace("git+", "")
normalize_url(u) == remove_all(remove_all(u, ".git"), "git+")

\* The repository URL the code settles on, or a failure (an exception
\* inside the try block of update_version_links).
resolve_repo_url(p) ==
  CASE p.kind = "absent"          -> [ok |-> TRUE,  url |-> PLACEHOLDER_URL]
    [] p.kind = "unreadable"      -> [ok |-> FALSE, url |-> <<>>]
    [] p.kind = "malformed"       -> [ok |-> FALSE, url |-> <<>>]
    [] p.kind = "not_object"      -> [ok |-> FALSE, url |-> <<>>]
    [] p.kind = "no_repository"   -> [ok |-> TRUE,  url |-> PLACEHOLDER_URL]
    [] p.kind = "repo_string"     -> [ok |-> TRUE,  url |-> p.url]
    [] p.kind = "repo_object"     -> [ok |-> TRUE,  url |-> p.url]
    [] p.kind = "repo_object_no_url"  -> [ok |-> TRUE,  url |-> PLACEHOLDER_URL]
    [] p.kind = "repo_object_bad_url" -> [ok |-> FALSE, url |-> <<>>]
    [] p.kind = "repo_other"      -> [ok |-> TRUE,  url |-> PLACEHOLDER_URL]

unreleased_link(url, ver) == <<ULINK, SP>> \o url \o <<"/compare/v", ver, "...HEAD">>

version_link(url, ver) == <<"[", ver, "]:", SP>> \o url \o <<"/releases/tag/v", ver>>

\* r"\[Unreleased\]: .+" matches at token i
link_match_at(c, i) ==
  /\ c[i] = ULINK
  /\ i + 2 <= Len(c)
  /\ c[i + 1] = SP
  /\ c[i + 2] # NL

\* r"(\[Unreleased\]: .+\n)" matches at token i
link_nl_match_at(c, i) ==
  /\ link_match_at(c, i)
  /\ LineEnd(c, i) < Len(c)

\* re.sub(r"\[Unreleased\]: .+", repl, content), scanning from token i
RECURSIVE sub_link(_, _, _)
sub_link(c, i, repl) ==
  IF i > Len(c) THEN <<>>
  ELSE IF link_match_at(c, i)
       THEN repl \o sub_link(c, LineEnd(c, i) + 1, repl)
       ELSE <<c[i]>> \o sub_link(c, i + 1, repl)

\* re.sub(r"(\[Unreleased\]: .+\n)", "\1" + ins + "\n", content), from token i
RECURSIVE sub_link_nl(_, _, _)
sub_link_nl(c, i, ins) ==
  IF i > Len(c) THEN <<>>
  ELSE IF link_nl_match_at(c, i)
       THEN SubSeq(c, i, LineEnd(c, i) + 1) \o ins \o <<NL>>
            \o sub_link_nl(c, LineEnd(c, i) + 2, ins)
       ELSE <<c[i]>> \o sub_link_nl(c, i + 1, ins)

links_section(url, ver) ==
  <<NL, NL, "## Links", NL>> \o unreleased_link(url, ver) \o <<NL>>
  \o version_link(url, ver) \o <<NL>>

update_version_links(content, ver, p) ==
  LET r == resolve_repo_url(p)
      repo_url == normalize_url(r.url)
  IN IF ~r.ok THEN content
     ELSE IF \E i \in 1..Len(content) : content[i] = ULINK
          THEN sub_link_nl(sub_link(content, 1, unreleased_link(repo_url, ver)),
                           1, version_link(repo_url, ver))
          ELSE content \o links_section(repo_url, ver)

\* ------------------------------------------------- update_changelog_file

\* the index of the last whitespace token of the run that follows token i
RECURSIVE space_run_end(_, _)
space_run_end(c, i) ==
  IF i < Len(c) /\ IsSpace(c[i + 1]) THEN space_run_end(c, i + 1) ELSE i

\* r"## \[Unreleased\]\s*\n" matched at token i: match.end(), or 0
anchor_match_end(c, i) ==
  IF c[i] # ANCHOR THEN 0
  ELSE LET nls == {j \in (i + 1)..space_run_end(c, i) : c[j] = NL}
       IN IF nls = {} THEN 0 ELSE Max(nls)

\* (mutant) re.search replaced by the last match
search_unreleased_last(c) ==
  LET at == {i \in 1..Len(c) : anchor_match_end(c, i) > 0}
  IN IF at = {} THEN 0 ELSE Max(at)

\* re.search(unreleased_pattern, content): the start of the match, or 0
search_unreleased(c) ==
  LET at == {i \in 1..Len(c) : anchor_match_end(c, i) > 0}
  IN IF at = {} THEN 0 ELSE Min(at)

\* (mutant) the entry appended to the document
insert_entry_at_end(c, entry) == c \o <<NL>> \o entry \o <<NL>>

\* new_content of update_changelog_file
insert_entry(c, entry) ==
  LET e == anchor_match_end(c, search_unreleased(c))
  IN SubSeq(c, 1, e) \o <<NL>> \o entry \o <<NL>> \o SubSeq(c, e + 1, Len(c))

\* (mutant) no check of the match: the entry goes to the top of a document
\* that has no anchor
update_changelog_file_no_check(ex, c, entry, ver, p) ==
  IF ~ex THEN [raised |-> "FileNotFoundError", wrote |-> FALSE, content |-> c]
  ELSE IF search_unreleased(c) = 0
       THEN [raised |-> "none", wrote |-> TRUE,
             content |-> update_version_links(<<NL>> \o entry \o <<NL>> \o c, ver, p)]
       ELSE [raised |-> "none", wrote |-> TRUE,
             content |-> update_version_links(insert_entry(c, entry), ver, p)]

\* (mutant) update_version_links without its try/except: a failure to
\* resolve the repository URL propagates
update_changelog_file_link_abort(ex, c, entry, ver, p) ==
  IF ~ex THEN [raised |-> "FileNotFoundError", wrote |-> FALSE, content |-> c]
  ELSE IF search_unreleased(c) = 0
       THEN [raised |-> "ValueError", wrote |-> FALSE, content |-> c]
       ELSE IF ~resolve_repo_url(p).ok
            THEN [raised |-> "Exception", wrote |-> FALSE, content |-> c]
            ELSE [raised |-> "none", wrote |-> TRUE,
                  content |-> update_version_links(insert_entry(c, entry), ver, p)]

\* What update_changelog_file does: the exception it raises ("none" when it
\* returns), whether it wrote CHANGELOG.md, and the content afterwards.
update_changelog_file(ex, c, entry, ver, p) ==
  IF ~ex THEN [raised |-> "FileNotFoundError", wrote |-> FALSE, content |-> c]
  ELSE IF search_unreleased(c) = 0
       THEN [raised |-> "ValueError", wrote |-> FALSE, content |-> c]
       ELSE [raised |-> "none", wrote |-> TRUE,
             content |-> update_version_links(insert_entry(c, entry), ver, p)]

\* ------------------------------------------------------ semantic versions

\* A version string is its dot-separated numeric fields and its prerelease
\* suffix ("" when it has none): "1.2.3-rc" is [nums |-> <<1,2,3>>, pre |-> "rc"].

\* validate_version: semver.VersionInfo.parse accepts the string
validate_version(v) == Len(v.nums) = 3

\* semver.VersionInfo.parse(v), for a string it accepts
semver_parse(v) ==
  [major |-> v.nums[1], minor |-> v.nums[2], patch |-> v.nums[3], pre |-> v.pre]

\* str(VersionInfo)
semver_str(x) == [nums |-> <<x.major, x.minor, x.patch>>, pre |-> x.pre]

\* (mutant) bump_major that resets the lower fields and forgets the increment
bump_major_no_increment(x) == [major |-> x.major, minor |-> 0, patch |-> 0, pre |-> ""]

\* VersionInfo.bump_major / bump_minor / bump_patch
bump_major(x) == [major |-> x.major + 1, minor |-> 0, patch |-> 0, pre |-> ""]
bump_minor(x) == [major |-> x.major, minor |-> x.minor + 1, patch |-> 0, pre |-> ""]
bump_patch(x) == [major |-> x.major, minor |-> x.minor, patch |-> x.patch + 1, pre |-> ""]

\* the text of a version string, as one token of a document
RECURSIVE nums_text(_)
nums_text(n) ==
  IF n = <<>> THEN ""
  ELSE IF Len(n) = 1 THEN ToString(n[1])
  ELSE ToString(n[1]) \o "." \o nums_text(Tail(n))

version_text(v) ==
  IF v.pre = "" THEN nums_text(v.nums) ELSE nums_text(v.nums) \o "-" \o v.pre

\* ------------------------------------------------------------ commits

None == "None"

\* the tokens \w+ matches
Digits == {"42", "7"}
Words ==
  {"feat", "Feat", "fix", "docs", "chore", "style", "add", "remove", "refactor",
   "security", "deprecate", "ignore", "BREAKING", "CHANGE", "Merge", "Update",
   "README", "API", "login", "crash", "on", "start", "typo", "old", "branch",
   "main", "core", "closes", "bugfix", "perf", "improve", "test", "ci"} \cup Digits

\* str.lower() of a token
Lower(t) ==
  CASE t = "Feat"     -> "feat"
    [] t = "BREAKING" -> "breaking"
    [] t = "CHANGE"   -> "change"
    [] t = "Merge"    -> "merge"
    [] t = "Update"   -> "update"
    [] t = "README"   -> "readme"
    [] t = "API"      -> "api"
    [] OTHER          -> t

\* `kw in t` for a lower-case token t and a keyword of infer_commit_type
TokenContains(t, kw) ==
  t = kw \/ <<t, kw>> \in {<<"docs", "doc">>, <<"bugfix", "fix">>, <<"bugfix", "bug">>}

\* `kw in subject.lower()`
lower_contains(subject, kw) ==
  \E i \in 1..Len(subject) : TokenContains(Lower(subject[i]), kw)

infer_commit_type(subject) ==
  IF \E w \in {"fix", "bug", "patch"} : lower_contains(subject, w) THEN "fix"
  ELSE IF \E w \in {"add", "new", "feat"} : lower_contains(subject, w) THEN "feat"
  ELSE IF \E w \in {"update", "change", "modify"} : lower_contains(subject, w) THEN "change"
  ELSE IF \E w \in {"remove", "delete"} : lower_contains(subject, w) THEN "remove"
  ELSE IF \E w \in {"security", "vuln"} : lower_contains(subject, w) THEN "security"
  ELSE IF lower_contains(subject, "deprecate") THEN "deprecate"
  ELSE IF \E w \in {"doc", "readme"} : lower_contains(subject, w) THEN "docs"
  ELSE IF lower_contains(subject, "test") THEN "test"
  ELSE IF \E w \in {"chore", "build", "ci"} : lower_contains(subject, w) THEN "chore"
  ELSE "change"

\* re.search(r"#(\d+)", text): group 1 of the first match, or None
search_pr(text) ==
  LET at == {i \in 1..(Len(text) - 1) : text[i] = "#" /\ text[i + 1] \in Digits}
  IN IF at = {} THEN None ELSE text[Min(at) + 1]

extract_pr_number(subject, body) ==
  IF search_pr(subject) # None THEN search_pr(subject)
  ELSE IF body # <<>> /\ search_pr(body) # None THEN search_pr(body)
  ELSE None

\* the index of the last token of the run of word tokens that starts at 1, or 0
RECURSIVE word_run_end(_, _)
word_run_end(s, i) ==
  IF i < Len(s) /\ s[i + 1] \in Words THEN word_run_end(s, i + 1) ELSE i

RECURSIVE concat_lower(_)
concat_lower(ws) ==
  IF ws = <<>> THEN "" ELSE Lower(Head(ws)) \o concat_lower(Tail(ws))

\* r"^(\w+)(\([^)]+\))?: (.+)$" on the subject: whether it matches, and the
\* positions of its groups (w: end of group 1; so..sc: the scope's tokens,
\* 0 when group 2 took no part; d: start of group 3)
conventional_match(s) ==
  LET w  == word_run_end(s, 0)
      cl == {j \in (w + 2)..Len(s) : s[j] = ")"}
      withScope == /\ w >= 1 /\ w + 1 <= Len(s) /\ s[w + 1] = "("
                   /\ cl # {} /\ Min(cl) >= w + 3
      sc == IF withScope THEN Min(cl) ELSE 0
      k  == IF withScope THEN sc + 1 ELSE w + 1      \* where ": " must stand
  IN [ok |-> /\ w >= 1
             /\ k + 2 <= Len(s)
             /\ s[k] = ":" /\ s[k + 1] = SP,
      w |-> w, so |-> IF withScope THEN w + 2 ELSE 0, sc |-> IF withScope THEN sc - 1 ELSE 0,
      d |-> k + 2]

\* hash[:8]: a hash is <<its first eight characters, the rest>>
short_hash(h) == IF h = <<>> THEN <<>> ELSE <<h[1]>>

parse_commit_message(commit) ==
  LET subject == commit.subject
      m == conventional_match(subject)
      ignored == [hash |-> commit.hash, type |-> "ignore", scope |-> <<None>>,
                  subject |-> subject, body |-> commit.body,
                  author |-> commit.author, pr |-> None]
  IN IF subject = <<>> THEN ignored
     ELSE IF Len(subject) >= 2 /\ subject[1] = "Merge" /\ subject[2] = SP THEN ignored
     ELSE IF m.ok
          THEN [hash |-> short_hash(commit.hash),
                type |-> concat_lower(SubSeq(subject, 1, m.w)),
                scope |-> IF m.so > 0 THEN SubSeq(subject, m.so, m.sc) ELSE <<None>>,
                subject |-> SubSeq(subject, m.d, Len(subject)),
                body |-> commit.body,
                author |-> commit.author,
                pr |-> extract_pr_number(subject, commit.body)]
          ELSE [hash |-> short_hash(commit.hash),
                type |-> infer_commit_type(subject),
                scope |-> <<None>>,
                subject |-> subject,
                body |-> commit.body,
                author |-> commit.author,
                pr |-> extract_pr_number(subject, commit.body)]

\* parse_commits, given what git lists: [ok |-> FALSE] when the repository
\* cannot be read, else the raw commits since the last tag
RECURSIVE parse_list(_)
parse_list(raw) ==
  IF raw = <<>> THEN <<>>
  ELSE LET parsed_commit == parse_commit_message(Head(raw))
       IN (IF parsed_commit.type # "ignore" THEN <<parsed_commit>> ELSE <<>>)
          \o parse_list(Tail(raw))

parse_commits(git) == IF ~git.ok THEN <<>> ELSE parse_list(git.log)

\* ------------------------------------------------------ get_next_version

has_breaking(cs) ==
  \E i \in 1..Len(cs) :
    \/ \E k \in 1..Len(cs[i].subject) : cs[i].subject[k] = "BREAKING"
    \/ /\ cs[i].body # <<>>
       /\ Find(cs[i].body, 1, <<"BREAKING", SP, "CHANGE">>) > 0

has_features(cs) == \E i \in 1..Len(cs) : cs[i].type \in {"feat", "add"}

Raised(e, warned) == [raised |-> e, value |-> [nums |-> <<>>, pre |-> ""], warned |-> warned]
Returned(v, warned) == [raised |-> "none", value |-> v, warned |-> warned]

Interrupt == "^C"

\* (mutant) the feature test made before the breaking-change test
auto_bump_feature_first(current_version, git) ==
  LET cs == parse_commits(git)
  IN IF validate_version(current_version)
     THEN LET current_ver == semver_parse(current_version)
          IN IF has_features(cs) THEN Returned(semver_str(bump_minor(current_ver)), FALSE)
             ELSE IF has_breaking(cs) THEN Returned(semver_str(bump_major(current_ver)), FALSE)
             ELSE Returned(semver_str(bump_patch(current_ver)), FALSE)
     ELSE Raised("ValueError", TRUE)

\* lines 91-111: the automatic bump
auto_bump(current_version, git) ==
  LET cs == parse_commits(git)
  IN IF validate_version(current_version)
     THEN LET current_ver == semver_parse(current_version)
          IN IF has_breaking(cs) THEN Returned(semver_str(bump_major(current_ver)), FALSE)
             ELSE IF has_features(cs) THEN Returned(semver_str(bump_minor(current_ver)), FALSE)
             ELSE Returned(semver_str(bump_patch(current_ver)), FALSE)
     \* line 102 raises; the handler warns and parses the same string again
     ELSE Raised("ValueError", TRUE)

\* lines 68-89: the interactive choice; `choice` and `custom` are what the
\* user types at the two prompts (Interrupt: the prompt is interrupted)
manual_bump(current_version, choice, custom) ==
  IF choice = Interrupt THEN Raised("KeyboardInterrupt", FALSE)
  ELSE IF choice = "4"
       THEN IF custom.interrupt THEN Raised("KeyboardInterrupt", FALSE)
            ELSE IF ~validate_version(custom.text) THEN Raised("ValueError", FALSE)
            ELSE Returned(custom.text, FALSE)
  ELSE IF choice \in {"1", "2", "3"}
       THEN IF ~validate_version(current_version) THEN Raised("ValueError", FALSE)
            ELSE LET x == semver_parse(current_version)
                 IN Returned(semver_str(CASE choice = "1" -> bump_patch(x)
                                          [] choice = "2" -> bump_minor(x)
                                          [] choice = "3" -> bump_major(x)), FALSE)
  ELSE Raised("ValueError", FALSE)

get_next_version(current_version, auto_mode, force_mode, choice, custom, git) ==
  LET auto == auto_mode \/ (force_mode /\ ~auto_mode)
  IN IF ~auto /\ ~force_mode
     THEN manual_bump(current_version, choice, custom)
     ELSE auto_bump(current_version, git)

\* ------------------------------------------------------------ environment

MaxLines == 3

OldHeader == <<"## [", "0.9.0", "] - ", "2024-01-01">>
OldLink   == <<ULINK, SP, "https://old/compare/v0.9.0...HEAD">>

\* the lines a changelog document is made of
DocLines == {<<>>, <<ANCHOR>>, OldHeader, OldLink, <<ULINK>>}

RECURSIVE JoinLines(_)
JoinLines(ls) ==
  IF ls = <<>> THEN <<>>
  ELSE IF Len(ls) = 1 THEN ls[1]
  ELSE ls[1] \o <<NL>> \o JoinLines(Tail(ls))

LineSeqs == UNION {[1..n -> DocLines] : n \in 0..MaxLines}

\* documents of at most MaxLines lines, with and without a final newline
Docs == {JoinLines(ls) : ls \in LineSeqs} \cup {JoinLines(ls) \o <<NL>> : ls \in LineSeqs}

RepoUrls == {<<"git+", "https://github.com/o/r", ".git">>}

PkgKinds ==
  {"absent", "unreadable", "malformed", "not_object", "no_repository",
   "repo_string", "repo_object", "repo_object_no_url", "repo_object_bad_url",
   "repo_other"}

\* "0.1.0", the default current version (update-changelog.py lines 165, 168)
V010 == [nums |-> <<0, 1, 0>>, pre |-> ""]

\* an optional version string: absent (None, or no "version" key), or given
NoVersion == [given |-> FALSE, text |-> V010]
Given(v) == [given |-> TRUE, text |-> v]

\* package.json: what reading it yields, its "repository" URL (where it has
\* one) and its "version"
SplicePkgs ==
  {[kind |-> k, url |-> u, version |-> NoVersion] : k \in PkgKinds, u \in RepoUrls}

NoGit == [ok |-> FALSE, log |-> <<>>]
NoReq == [current_version |-> V010, auto_mode |-> FALSE, force_mode |-> FALSE]
NoInput == "-"
NoCustom == [interrupt |-> FALSE, text |-> V010]
NoRes == [out |-> Raised("unset", FALSE), choice |-> NoInput, custom |-> NoCustom]
NoArgs == [version |-> NoVersion, auto |-> FALSE, manual |-> FALSE, dry_run |-> FALSE,
           verbose |-> FALSE, force |-> FALSE]

Today == "2025-06-01"

\* update_changelog's `changes`: None, or the category buckets
NoChangesVar == [none |-> TRUE, cats |-> NoChanges]

\* ------------------------------------------------------------ SpecSplice
\* update_changelog_file called on a document, once per released version.

\* the versions released, in release order
SpliceVersions == <<[nums |-> <<1, 0, 0>>, pre |-> ""], [nums |-> <<1, 1, 0>>, pre |-> ""]>>

SpliceChanges ==
  {[NoChanges EXCEPT !["Added"] = <<(<<"add", SP, "login">>)>>],
   [NoChanges EXCEPT !["Fixed"] = <<(<<"keep", SP, ULINK, SP, "intact">>)>>]}

InitSplice ==
  /\ exists \in BOOLEAN
  /\ file \in (IF exists THEN Docs ELSE {<<>>})
  /\ pkg \in SplicePkgs
  /\ commits = NoGit
  /\ orig = file /\ prev = file /\ log = <<>>
  /\ req = NoReq /\ res = NoRes
  /\ pc = "idle" /\ args = NoArgs /\ version = NoVersion /\ changes = NoChangesVar
  /\ passed = {} /\ writes = 0

Splice(chg) ==
  LET ver   == version_text(SpliceVersions[Len(log) + 1])
      entry == format_changelog(chg, ver, Today)
      r     == update_changelog_file(exists, file, entry, ver, pkg)
  IN /\ Len(log) < Len(SpliceVersions)
     /\ file' = r.content
     /\ prev' = file
     /\ log' = Append(log, [version |-> ver, entry |-> entry,
                            raised |-> r.raised, wrote |-> r.wrote])
     /\ UNCHANGED <<exists, pkg, commits, orig, verVars, runVars>>

NextSplice == \E chg \in SpliceChanges : Splice(chg)

SpecSplice == InitSplice /\ [][NextSplice]_vars

\* ------------------------------------------------------------ SpecVersion
\* get_next_version called on a current version, in each mode.

MaxVer == 2
MaxCommits == 2

ValidVersions ==
  {[nums |-> <<a, b, c>>, pre |-> q] : a \in 0..MaxVer, b \in 0..MaxVer, c \in 0..MaxVer,
                                       q \in {"", "rc"}}

\* strings semver does not accept: "", "1.2", "1.2.3.4"
InvalidVersions ==
  {[nums |-> <<>>, pre |-> ""], [nums |-> <<1, 2>>, pre |-> ""],
   [nums |-> <<1, 2, 3, 4>>, pre |-> ""]}

VersionStrings == ValidVersions \cup InvalidVersions

Hash == <<"0123abcd", "ef456789">>

Commit(subject, body) ==
  [hash |-> Hash, subject |-> subject, body |-> body, author |-> "dev"]

FeatLogin     == Commit(<<"feat", ":", SP, "add", SP, "login">>, <<>>)
FixCrash      == Commit(<<"fix", ":", SP, "crash", SP, "on", SP, "start", SP, "#", "42">>, <<>>)
DocsTypo      == Commit(<<"docs", ":", SP, "typo">>, <<>>)
BreakingType  == Commit(<<"BREAKING", ":", SP, "remove", SP, "old", SP, "API">>, <<>>)
BreakingBody  == Commit(<<"refactor", "(", "core", ")", ":", SP, "login">>,
                        <<"BREAKING", SP, "CHANGE", ":", SP, "old", SP, "API">>)
BreakingPlain == Commit(<<"remove", SP, "old", SP, "API", SP, "BREAKING">>, <<>>)
MergeMain     == Commit(<<"Merge", SP, "branch", SP, "main">>, <<>>)

RawCommits ==
  {FeatLogin, FixCrash, DocsTypo, BreakingType, BreakingBody, BreakingPlain, MergeMain}

CommitLogs == UNION {[1..n -> RawCommits] : n \in 0..MaxCommits}

GitStates == {NoGit} \cup {[ok |-> TRUE, log |-> l] : l \in CommitLogs}

Choices == {"1", "2", "3", "4", "5", Interrupt}

CustomInputs ==
  {[interrupt |-> FALSE, text |-> [nums |-> <<0, 0, 1>>, pre |-> ""]],
   [interrupt |-> FALSE, text |-> [nums |-> <<1, 2>>, pre |-> ""]],
   [interrupt |-> TRUE,  text |-> V010]}

Interactive(r) == ~r.auto_mode /\ ~r.force_mode

InitVersion ==
  /\ req \in [current_version : VersionStrings, auto_mode : BOOLEAN, force_mode : BOOLEAN]
  /\ commits \in GitStates
  /\ res = NoRes
  /\ exists = FALSE /\ file = <<>>
  /\ pkg = [kind |-> "absent", url |-> <<>>, version |-> NoVersion]
  /\ orig = <<>> /\ prev = <<>> /\ log = <<>>
  /\ pc = "idle" /\ args = NoArgs /\ version = NoVersion /\ changes = NoChangesVar
  /\ passed = {} /\ writes = 0

ResolveVersion(choice, custom) ==
  /\ res.out.raised = "unset"
  /\ IF Interactive(req)
     THEN choice # NoInput /\ (choice = "4" <=> custom # NoCustom)
     ELSE choice = NoInput /\ custom = NoCustom
  /\ res' = [out |-> get_next_version(req.current_version, req.auto_mode,
                                      req.force_mode, choice, custom, commits),
             choice |-> choice, custom |-> custom]
  /\ UNCHANGED <<req, envVars, spliceVars, runVars>>

NextVersion ==
  \E choice \in Choices \cup {NoInput}, custom \in CustomInputs \cup {NoCustom} :
    ResolveVersion(choice, custom)

SpecVersion == InitVersion /\ [][NextVersion]_vars

\* ---------------------------------------------------- get_changes_from_git

\* the rendered line of a commit: its subject, and " [#N]" when it has a PR
render_entry(commit) ==
  commit.subject \o (IF commit.pr # None THEN <<SP, "[#", commit.pr, "]">> ELSE <<>>)

\* (mutant) the test of line 279 dropped: docs, test, chore and style
\* commits go to Changed
category_of_no_drop(commit_type) ==
  IF commit_type \in {"feat", "add"} THEN "Added"
  ELSE IF commit_type \in {"fix", "bugfix"} THEN "Fixed"
  ELSE IF commit_type \in {"refactor", "perf", "improve"} THEN "Changed"
  ELSE IF commit_type = "remove" THEN "Removed"
  ELSE IF commit_type = "security" THEN "Security"
  ELSE IF commit_type = "deprecate" THEN "Deprecated"
  ELSE "Changed"

\* the category a commit type goes to, or None
category_of(commit_type) ==
  IF commit_type \in {"feat", "add"} THEN "Added"
  ELSE IF commit_type \in {"fix", "bugfix"} THEN "Fixed"
  ELSE IF commit_type \in {"refactor", "perf", "improve"} THEN "Changed"
  ELSE IF commit_type = "remove" THEN "Removed"
  ELSE IF commit_type = "security" THEN "Security"
  ELSE IF commit_type = "deprecate" THEN "Deprecated"
  ELSE IF commit_type \notin {"docs", "test", "chore", "style"} THEN "Changed"
  ELSE None

RECURSIVE group_commits(_, _)
group_commits(cs, acc) ==
  IF cs = <<>> THEN acc
  ELSE LET cat == category_of(Head(cs).type)
       IN group_commits(Tail(cs),
            IF cat = None THEN acc
            ELSE [acc EXCEPT ![cat] = Append(@, render_entry(Head(cs)))])

get_changes_from_git(git) ==
  LET cs == parse_commits(git)
  IN IF cs = <<>> THEN NoChangesVar
     ELSE [none |-> FALSE, cats |-> group_commits(cs, NoChanges)]

\* -------------------------------------------------------- update_changelog

\* json.loads(PACKAGE_JSON_PATH.read_text()).get("version", "0.1.0"), lines
\* 163-168: the current version, or the exception raised
read_current_version(p) ==
  IF p.kind = "absent" THEN [raised |-> "none", value |-> V010]
  ELSE IF p.kind \in {"unreadable", "malformed", "not_object"}
       THEN [raised |-> "Exception", value |-> V010]
  ELSE [raised |-> "none", value |-> IF p.version.given THEN p.version.text ELSE V010]

\* line 172: the version returned by get_next_version is validated
validated(r) ==
  IF r.raised # "none" THEN r
  ELSE IF ~validate_version(r.value) THEN Raised("ValueError", FALSE)
  ELSE r

\* lines 161-173: the version to release, or the exception raised
determine_version(a, p, choice, custom, git) ==
  IF a.version.given
  THEN validated(Returned(a.version.text, FALSE))
  ELSE IF read_current_version(p).raised # "none"
       THEN Raised(read_current_version(p).raised, FALSE)
       ELSE validated(get_next_version(read_current_version(p).value, a.auto, a.force,
                                       choice, custom, git))

\* get_next_version prompts the user
VersionPrompted(a, p) ==
  /\ ~a.version.given
  /\ read_current_version(p).raised = "none"
  /\ ~a.auto /\ ~a.force

\* `not changes or not any(changes.get(key) for key in changes)`, line 188
no_changes(ch) == ch.none \/ \A c \in Categories : ch.cats[c] = <<>>

\* (mutant) the dry-run test of line 202 dropped
after_changes_no_dry_run(ch, a) ==
  IF no_changes(ch) THEN "done_no_changes"
  ELSE IF ~a.force THEN "confirm"
  ELSE "write"

\* lines 187-213: where update_changelog goes once it has the changes
after_changes(ch, a) ==
  IF no_changes(ch) THEN "done_no_changes"
  ELSE IF a.dry_run THEN "done_dry_run"
  ELSE IF ~a.force THEN "confirm"
  ELSE "write"

\* input(...).strip().lower() of the answers modelled
strip_lower(answer) ==
  CASE answer = "Y"     -> "y"
    [] answer = " yes " -> "yes"
    [] OTHER            -> answer

\* ------------------------------------------------------------------- Spec
\* One run of the command: main, then update_changelog.

RunDocs ==
  {OldHeader \o <<NL>>,
   <<ANCHOR, NL, NL>> \o OldHeader \o <<NL, NL>> \o OldLink \o <<NL>>}

V123 == [nums |-> <<1, 2, 3>>, pre |-> ""]
V12  == [nums |-> <<1, 2>>, pre |-> ""]

RunArgVersions == {NoVersion, Given(V123), Given(V12)}

RunPkgs ==
  {[kind |-> "absent", url |-> <<>>, version |-> NoVersion],
   [kind |-> "malformed", url |-> <<>>, version |-> NoVersion],
   [kind |-> "not_object", url |-> <<>>, version |-> NoVersion],
   [kind |-> "no_repository", url |-> <<>>, version |-> NoVersion],
   [kind |-> "repo_object", url |-> <<"https://github.com/o/r">>, version |-> Given(V123)],
   [kind |-> "repo_object", url |-> <<"https://github.com/o/r">>, version |-> Given(V12)]}

RunGitStates ==
  {g \in GitStates :
     \A i \in 1..Len(g.log) : g.log[i] \in {FeatLogin, DocsTypo, MergeMain}}

ManualInputs ==
  {[interrupt |-> FALSE, cats |-> NoChanges],
   [interrupt |-> FALSE, cats |-> [NoChanges EXCEPT !["Fixed"] = <<(<<"crash">>)>>]],
   [interrupt |-> TRUE,  cats |-> NoChanges]}

NoManual == [interrupt |-> FALSE, cats |-> NoChanges]

Answers == {"y", "Y", " yes ", "n", "", Interrupt}

Init ==
  /\ exists \in BOOLEAN
  /\ file \in (IF exists THEN RunDocs ELSE {<<>>})
  /\ pkg \in RunPkgs
  /\ commits \in RunGitStates
  /\ orig = file /\ prev = file /\ log = <<>>
  /\ req = NoReq /\ res = NoRes
  /\ pc = "main"
  /\ args \in [version : RunArgVersions, auto : BOOLEAN, manual : BOOLEAN,
               dry_run : BOOLEAN, verbose : {FALSE}, force : BOOLEAN]
  /\ version = args.version
  /\ changes = NoChangesVar
  /\ passed = {} /\ writes = 0

\* main, lines 349-353
Main ==
  /\ pc = "main"
  /\ args' = [args EXCEPT !.auto = IF ~args.auto /\ ~args.manual THEN TRUE ELSE @]
  /\ pc' = "start"
  /\ UNCHANGED <<envVars, spliceVars, verVars, version, changes, passed, writes>>

\* lines 157-175
Start(choice, custom) ==
  /\ pc = "start"
  /\ IF exists /\ VersionPrompted(args, pkg)
     THEN choice # NoInput /\ (choice = "4" <=> custom # NoCustom)
     ELSE choice = NoInput /\ custom = NoCustom
  /\ \E r \in {determine_version(args, pkg, choice, custom, commits)} :
        IF ~exists THEN pc' = "exit_error" /\ UNCHANGED <<version, passed>>
        ELSE IF r.raised = "KeyboardInterrupt"
             THEN pc' = "exit_interrupt" /\ UNCHANGED <<version, passed>>
        ELSE IF r.raised # "none"
             THEN pc' = "exit_error" /\ UNCHANGED <<version, passed>>
        ELSE /\ version' = Given(r.value)
             /\ passed' = passed \cup {"version_valid"}
             /\ pc' = "changes"
  /\ UNCHANGED <<envVars, spliceVars, verVars, args, changes, writes>>

\* lines 177-213
GetChanges(typed) ==
  /\ pc = "changes"
  /\ IF args.auto \/ args.force THEN typed = NoManual ELSE TRUE
  /\ IF ~(args.auto \/ args.force) /\ typed.interrupt
     THEN pc' = "exit_interrupt" /\ UNCHANGED <<changes, passed>>
     ELSE LET ch == IF args.auto \/ args.force THEN get_changes_from_git(commits)
                    ELSE [none |-> FALSE, cats |-> typed.cats]
          IN /\ changes' = ch
             /\ passed' = IF no_changes(ch) THEN passed
                          ELSE passed \cup {"changes_nonempty"}
             /\ pc' = after_changes(ch, args)
  /\ UNCHANGED <<envVars, spliceVars, verVars, args, version, writes>>

\* lines 207-211
Confirm(answer) ==
  /\ pc = "confirm"
  /\ IF answer = Interrupt THEN pc' = "exit_interrupt" /\ UNCHANGED passed
     ELSE IF strip_lower(answer) \in {"y", "yes"}
          THEN pc' = "write" /\ passed' = passed \cup {"confirmed"}
          ELSE pc' = "done_cancelled" /\ UNCHANGED passed
  /\ UNCHANGED <<envVars, spliceVars, verVars, args, version, changes, writes>>

\* line 216
Write ==
  /\ pc = "write"
  /\ LET ver   == version_text(version.text)
         entry == format_changelog(changes.cats, ver, Today)
         r     == update_changelog_file(exists, file, entry, ver, pkg)
     IN /\ file' = r.content
        /\ prev' = file
        /\ log' = Append(log, [version |-> ver, entry |-> entry,
                               raised |-> r.raised, wrote |-> r.wrote])
        /\ writes' = IF r.wrote THEN writes + 1 ELSE writes
        /\ pc' = IF r.raised = "none" THEN "done_updated" ELSE "exit_error"
  /\ UNCHANGED <<exists, pkg, commits, orig, verVars, args, version, changes, passed>>

Next ==
  \/ Main
  \/ \E choice \in Choices \cup {NoInput}, custom \in CustomInputs \cup {NoCustom} :
       Start(choice, custom)
  \/ \E typed \in ManualInputs : GetChanges(typed)
  \/ \E answer \in Answers : Confirm(answer)
  \/ Write

Spec == Init /\ [][Next]_vars

\* ------------------------------------------------- claims on the splice

Last == log[Len(log)]

\* the number of lines of c that hold the Unreleased marker
AnchorLineCount(c) ==
  LET ls == Lines(c)
  IN Cardinality({n \in 1..Len(ls) : \E k \in 1..Len(ls[n]) : ls[n][k] = ANCHOR})

\* c holds a marker that ends its line, the line ending in a newline
HasAnchorNL(c) == Find(c, 1, <<ANCHOR, NL>>) > 0

\* the headings of a document in order: "A" for the Unreleased marker, the
\* version for an entry header
RECURSIVE HeaderSeq(_, _)
HeaderSeq(c, i) ==
  IF i > Len(c) THEN <<>>
  ELSE (IF c[i] = ANCHOR THEN <<"A">>
        ELSE IF c[i] = "## [" /\ i < Len(c) THEN <<c[i + 1]>>
        ELSE <<>>) \o HeaderSeq(c, i + 1)

\* hs with the versions vs inserted right after its first "A"
AfterFirstAnchor(hs, vs) ==
  LET k == Min({i \in 1..Len(hs) : hs[i] = "A"})
  IN SubSeq(hs, 1, k) \o vs \o SubSeq(hs, k + 1, Len(hs))

\* in c, the header of the entry of version ver follows the first marker,
\* with nothing but whitespace between the two
HeaderFollowsAnchor(c, ver) ==
  LET a == Find(c, 1, <<ANCHOR>>)
      h == Find(c, 1, entry_header(ver, Today))
  IN a > 0 /\ h > a /\ \A j \in (a + 1)..(h - 1) : IsSpace(c[j])

\* C2: a splice of an existing document that holds no `## [Unreleased]`
\* marker raises the structure error (ValueError), writes nothing and leaves
\* the document as it was.
C2_NoAnchorFails ==
  (log # <<>> /\ exists /\ AnchorLineCount(prev) = 0)
    => (Last.raised = "ValueError" /\ ~Last.wrote /\ file = prev)

C2_Witness ==
  /\ log # <<>> /\ exists
  /\ AnchorLineCount(prev) = 0 /\ Find(prev, 1, OldHeader) > 0
  /\ Last.raised = "ValueError"

\* C3 (as claimed): the splice writes only when the document holds exactly
\* one Unreleased anchor line.
C3_ExactlyOneAnchor ==
  (log # <<>> /\ Last.wrote) => AnchorLineCount(prev) = 1

\* C3 (amended): the splice writes only when the document holds at least one
\* anchor line; with none it fails and writes nothing; with several it does
\* not fail: the entry goes right after the first one.
C3_FirstAnchor ==
  log # <<>> =>
    /\ AnchorLineCount(prev) = 0 => (~Last.wrote /\ file = prev)
    /\ Last.wrote =>
         /\ AnchorLineCount(prev) >= 1
         /\ HeaderFollowsAnchor(file, Last.version)
         /\ HeaderSeq(file, 1) = AfterFirstAnchor(HeaderSeq(prev, 1), <<Last.version>>)

C3_Witness ==
  log # <<>> /\ Last.wrote /\ AnchorLineCount(prev) >= 2

\* C8: after a splice for V1 and then one for V2, the document holds both
\* entry headers: V2's right after the anchor, V1's after V2's, and every
\* heading that followed the anchor before comes after V1's, in its old order.
C8_TwoSplicesOrder ==
  (Len(log) = 2 /\ log[1].wrote /\ log[2].wrote) =>
    /\ HeaderSeq(file, 1)
         = AfterFirstAnchor(HeaderSeq(orig, 1), <<log[2].version, log[1].version>>)
    /\ HeaderFollowsAnchor(file, log[2].version)
    /\ Find(file, 1, entry_header(log[1].version, Today))
         > Find(file, 1, entry_header(log[2].version, Today))

C8_Witness ==
  /\ Len(log) = 2 /\ log[1].wrote /\ log[2].wrote
  /\ log[1].version # log[2].version
  /\ HeaderSeq(orig, 1) = <<"A", "0.9.0">>
  /\ HeaderSeq(file, 1) = <<"A", log[2].version, log[1].version, "0.9.0">>

\* a line that starts with `[Unreleased]: ` and goes on
IsLinkLine(l) == Len(l) >= 3 /\ l[1] = ULINK /\ l[2] = SP

HasLinkLine(c) == \E n \in 1..Len(Lines(c)) : IsLinkLine(Lines(c)[n])

\* the text `[Unreleased]:` occurs in c
HasMarker(c) == \E i \in 1..Len(c) : c[i] = ULINK

CountLines(c, l) == Cardinality({n \in 1..Len(Lines(c)) : Lines(c)[n] = l})

\* C9: after a splice that resolved the repository URL, every `[Unreleased]: `
\* link line of a document that had one reads <url>/compare/v<version>...HEAD
\* and has the `[<version>]: ` link line right below it; a document that had
\* none ends with a `## Links` section of both lines; either way the version
\* link line is there exactly once.  (Stated for the documents and entries in
\* which the text `[Unreleased]:` occurs in link lines only.)
C9_LinkFooter ==
  (/\ log # <<>> /\ Last.wrote /\ resolve_repo_url(pkg).ok
   /\ ~HasMarker(Last.entry)
   /\ \A n \in 1..Len(Lines(prev)) :
        HasMarker(Lines(prev)[n]) => IsLinkLine(Lines(prev)[n])) =>
    LET url == normalize_url(resolve_repo_url(pkg).url)
        ul  == unreleased_link(url, Last.version)
        vl  == version_link(url, Last.version)
        ls  == Lines(file)
    IN /\ CountLines(file, vl) = 1
       /\ HasLinkLine(prev) =>
            \A n \in 1..Len(ls) :
              IsLinkLine(ls[n]) => (ls[n] = ul /\ n < Len(ls) /\ ls[n + 1] = vl)
       /\ ~HasLinkLine(prev) =>
            Find(file, 1, <<"## Links", NL>> \o ul \o <<NL>> \o vl \o <<NL>>) > 0

\* package.json states in which the code raises while it resolves the URL
UrlRaises(p) ==
  p.kind \in {"unreadable", "malformed", "not_object", "repo_object_bad_url"}

\* package.json states that hold no usable URL and raise nothing
UrlMissing(p) ==
  p.kind \in {"no_repository", "repo_object_no_url", "repo_other"}

Resolved == res.out.raised # "unset"

\* the automatic bump ran (--auto, or --force which implies it)
Automatic == Resolved /\ ~Interactive(req)

Cur == req.current_version

\* semantic-version precedence: the triples in order, then a prerelease
\* before the release of the same triple
VersionLess(a, b) ==
  LET x == a.nums
      y == b.nums
  IN \/ x[1] < y[1]
     \/ x[1] = y[1] /\ x[2] < y[2]
     \/ x[1] = y[1] /\ x[2] = y[2] /\ x[3] < y[3]
     \/ x = y /\ a.pre # "" /\ b.pre = ""

Release(a, b, c) == [nums |-> <<a, b, c>>, pre |-> ""]

\* C4: in automatic mode, from a valid M.m.p: a breaking change gives
\* (M+1).0.0; else a feat/add commit gives M.(m+1).0; else M.m.(p+1).
C4_AutoBumpRule ==
  (Automatic /\ validate_version(Cur)) =>
    LET cs == parse_commits(commits)
        M  == Cur.nums[1]
        m  == Cur.nums[2]
        p  == Cur.nums[3]
    IN /\ res.out.raised = "none"
       /\ res.out.value =
            IF has_breaking(cs) THEN Release(M + 1, 0, 0)
            ELSE IF has_features(cs) THEN Release(M, m + 1, 0)
            ELSE Release(M, m, p + 1)

C4_Witness ==
  /\ Automatic /\ Cur = Release(1, 2, 1)
  /\ commits.ok /\ commits.log = <<FeatLogin, FixCrash>>
  /\ res.out.value = Release(1, 3, 0)

\* a raw commit since the last tag has the text BREAKING in its subject line
RawSubjectBreaking ==
  /\ commits.ok
  /\ \E i \in 1..Len(commits.log) :
       \E k \in 1..Len(commits.log[i].subject) : commits.log[i].subject[k] = "BREAKING"

\* C5: in automatic mode, a commit whose subject line holds the text BREAKING
\* (also as the type before the colon) makes the next version (M+1).0.0.
C5_BreakingSubjectBumpsMajor ==
  (Automatic /\ validate_version(Cur) /\ RawSubjectBreaking) =>
    res.out.value = Release(Cur.nums[1] + 1, 0, 0)

\* C6: in automatic mode a current version that does not parse does not abort
\* the resolution: a warning, and a version is returned.
C6_UnparsableIsNotFatal ==
  (Automatic /\ ~validate_version(Cur)) =>
    (res.out.raised = "none" /\ res.out.warned /\ validate_version(res.out.value))

\* C7 (as claimed): in every mode the version returned for a valid current
\* version is not lower than the current version.
C7_NeverLower ==
  (res.out.raised = "none" /\ validate_version(Cur)) => ~VersionLess(res.out.value, Cur)

\* C7 (amended): the automatic bump and the explicit patch/minor/major choices
\* return a version higher than the current one; the custom choice returns
\* the version typed, whatever its order to the current one.
C7_BumpsRaise ==
  (res.out.raised = "none" /\ validate_version(Cur)) =>
    IF res.choice = "4" THEN res.out.value = res.custom.text /\ validate_version(res.custom.text)
    ELSE VersionLess(Cur, res.out.value)

C7_Witness ==
  /\ res.out.raised = "none" /\ res.choice = "3"
  /\ Cur = [nums |-> <<1, 2, 1>>, pre |-> "rc"]
  /\ res.out.value = Release(2, 0, 0)

\* --------------------------------------------------- claims on the run

\* C1: in a run, CHANGELOG.md is written at most once, and only after the
\* version passed validation, the changes held a non-empty category, dry-run
\* was off and the run was forced or the user answered y/yes; in every other
\* run the document stays as it was.
C1_WriteOnlyAfterChecks ==
  /\ writes <= 1
  /\ writes = 0 => file = orig
  /\ writes = 1 =>
       /\ "version_valid" \in passed
       /\ version.given /\ validate_version(version.text)
       /\ "changes_nonempty" \in passed
       /\ ~changes.none /\ \E c \in Categories : changes.cats[c] # <<>>
       /\ ~args.dry_run
       /\ args.force \/ "confirmed" \in passed

C1_Witness ==
  /\ pc = "done_updated" /\ writes = 1 /\ file # orig
  /\ ~args.force /\ "confirmed" \in passed

\* ---------------------------------------------------------------- SpecUrl
\* update_changelog_file called with a package.json whose "repository" is a
\* URL: an optional "git+" prefix, the host and owner, and a path.

MaxUrl == 3

UrlHost == "https://github.com/o/o"

\* the pieces a repository path is made of
UrlTokens == {".git", "git+", "hub.io"}

UrlPaths == UNION {[1..n -> UrlTokens] : n \in 0..MaxUrl}

PathUrls == {pre \o <<UrlHost>> \o path : pre \in {<<>>, <<"git+">>}, path \in UrlPaths}

\* package.json with "repository": "<url>" or "repository": {"url": "<url>"}
UrlPkgs ==
  {[kind |-> k, url |-> u, version |-> NoVersion] :
     k \in {"repo_string", "repo_object"}, u \in PathUrls}

\* a changelog with a link footer, and one without
UrlDocs == {<<ANCHOR, NL>>, <<ANCHOR, NL>> \o OldLink \o <<NL>>}

InitUrl ==
  /\ exists = TRUE
  /\ file \in UrlDocs
  /\ pkg \in UrlPkgs
  /\ commits = NoGit
  /\ orig = file /\ prev = file /\ log = <<>>
  /\ req = NoReq /\ res = NoRes
  /\ pc = "idle" /\ args = NoArgs /\ version = NoVersion /\ changes = NoChangesVar
  /\ passed = {} /\ writes = 0

SpecUrl == InitUrl /\ [][NextSplice]_vars

\* ------------------------------------------------- repository URL (C11)

\* the URL without a leading "git+" and without a trailing ".git"
StripEnds(u) ==
  LET a == IF u # <<>> /\ Head(u) = "git+" THEN Tail(u) ELSE u
  IN IF a # <<>> /\ a[Len(a)] = ".git" THEN SubSeq(a, 1, Len(a) - 1) ELSE a

\* C11: after a successful splice the link lines of the document carry the
\* repository URL with only its leading "git+" and its trailing ".git"
\* removed: the document holds the link
\* "[Unreleased]: <url>/compare/v<version>...HEAD" of the released version
\* for that URL, every other ".git" and "git+" of the URL intact.
C11_OnlyEndsStripped ==
  (log # <<>> /\ Last.wrote)
    => Find(file, 1, unreleased_link(StripEnds(pkg.url), Last.version)) > 0

\* ------------------------------------------------------------- SpecFormat
\* format_changelog called on category buckets.

MaxItems == 2

\* the k-th item typed or derived for a release
Item(k) == <<"item", SP, ToString(k)>>

\* the buckets with n[c] items in category c, numbered in input order
RECURSIVE Bucket(_, _, _)
Bucket(n, k, from) ==
  IF k > Len(ordered_categories) THEN NoChanges
  ELSE [Bucket(n, k + 1, from + n[ordered_categories[k]])
          EXCEPT ![ordered_categories[k]] =
            [j \in 1..n[ordered_categories[k]] |-> Item(from + j)]]

Buckets == {Bucket(n, 1, 0) : n \in [Categories -> 0..MaxItems]}

InitFormat ==
  /\ exists = FALSE /\ file = <<>>
  /\ pkg = [kind |-> "absent", url |-> <<>>, version |-> NoVersion]
  /\ commits = NoGit
  /\ orig = file /\ prev = file /\ log = <<>>
  /\ req = NoReq /\ res = NoRes
  /\ pc = "idle" /\ args = NoArgs /\ version = Given(V123)
  /\ changes \in {[none |-> FALSE, cats |-> b] : b \in Buckets}
  /\ passed = {} /\ writes = 0

\* update-changelog.py line 193
Format ==
  /\ log = <<>>
  /\ log' = <<[version |-> version_text(version.text),
               entry |-> format_changelog(changes.cats, version_text(version.text), Today),
               raised |-> "none", wrote |-> FALSE]>>
  /\ UNCHANGED <<envVars, orig, prev, verVars, runVars>>

NextFormat == Format

SpecFormat == InitFormat /\ [][NextFormat]_vars

\* ------------------------------------------------ category headers (C12)

\* the names of the `### ` headers of an entry, in order
RECURSIVE HeaderNames(_, _)
HeaderNames(e, i) ==
  IF i > Len(e) THEN <<>>
  ELSE (IF e[i] = "### " /\ i < Len(e) THEN <<e[i + 1]>> ELSE <<>>)
       \o HeaderNames(e, i + 1)

\* the categories of a bucket that have items, in the fixed order, from k
RECURSIVE NonEmptyFrom(_, _)
NonEmptyFrom(chg, k) ==
  IF k > Len(ordered_categories) THEN <<>>
  ELSE (IF chg[ordered_categories[k]] # <<>> THEN <<ordered_categories[k]>> ELSE <<>>)
       \o NonEmptyFrom(chg, k + 1)

\* the header at token i has an item line under it
HeaderHasItem(e, i) ==
  /\ i + 4 <= Len(e)
  /\ e[i + 2] = NL /\ e[i + 3] = NL /\ e[i + 4] = "- "

\* C12: the formatted entry has a `### <Category>` header for exactly the
\* non-empty categories of the bucket, in the order Added, Changed,
\* Deprecated, Removed, Fixed, Security, and every header has an item line
\* under it.
C12_NoEmptyHeader ==
  log # <<>> =>
    /\ HeaderNames(Last.entry, 1) = NonEmptyFrom(changes.cats, 1)
    /\ \A i \in 1..Len(Last.entry) :
         Last.entry[i] = "### " => HeaderHasItem(Last.entry, i)

C12_Witness ==
  /\ log # <<>>
  /\ changes.cats["Added"] = <<>>
  /\ changes.cats["Deprecated"] = <<>>
  /\ Len(changes.cats["Changed"]) = 2
  /\ HeaderNames(Last.entry, 1) = <<"Changed", "Fixed", "Security">>

\* ----------------------------------------------------------- SpecClassify
\* get_changes_from_git called on what git lists.

\* the type words of the conventional subjects listed
TypeWords ==
  {"feat", "Feat", "add", "fix", "bugfix", "refactor", "perf", "improve", "remove",
   "security", "deprecate", "docs", "test", "chore", "style", "ci", "ignore"}

\* "<type>: <type> login"
Typed(t) == Commit(<<t, ":", SP, t, SP, "login">>, <<>>)

EmptySubject == Commit(<<>>, <<>>)
UpdateReadme == Commit(<<"Update", SP, "README">>, <<>>)
ReadmeTypo   == Commit(<<"README", SP, "typo">>, <<"closes", SP, "#", "7">>)

ClassifyCommits ==
  {Typed(t) : t \in TypeWords}
    \cup {FixCrash, BreakingType, MergeMain, EmptySubject, UpdateReadme, ReadmeTypo}

\* the commits `feat: add login`, `fix: crash on start #42`, `docs: typo`
ScenarioLog == <<FeatLogin, FixCrash, DocsTypo>>

ClassifyLogs == UNION {[1..n -> ClassifyCommits] : n \in 0..MaxCommits} \cup {ScenarioLog}

ClassifyGitStates == {NoGit} \cup {[ok |-> TRUE, log |-> l] : l \in ClassifyLogs}

InitClassify ==
  /\ exists = FALSE /\ file = <<>>
  /\ pkg = [kind |-> "absent", url |-> <<>>, version |-> NoVersion]
  /\ commits \in ClassifyGitStates
  /\ orig = file /\ prev = file /\ log = <<>>
  /\ req = NoReq /\ res = NoRes
  /\ pc = "idle" /\ args = NoArgs /\ version = NoVersion /\ changes = NoChangesVar
  /\ passed = {} /\ writes = 0

\* update-changelog.py line 182
Classify ==
  /\ pc = "idle"
  /\ changes' = get_changes_from_git(commits)
  /\ pc' = "classified"
  /\ UNCHANGED <<envVars, spliceVars, verVars, args, version, passed, writes>>

NextClassify == Classify

SpecClassify == InitClassify /\ [][NextClassify]_vars

\* ------------------------------------------------ commit routing (C13)

\* the category a commit type is routed to, None for the types dropped
RoutedTo(t) ==
  CASE t \in {"feat", "add"}                    -> "Added"
    [] t \in {"fix", "bugfix"}                  -> "Fixed"
    [] t \in {"refactor", "perf", "improve"}    -> "Changed"
    [] t = "remove"                             -> "Removed"
    [] t = "security"                           -> "Security"
    [] t = "deprecate"                          -> "Deprecated"
    [] t \in {"docs", "test", "chore", "style"} -> None
    [] t = "ignore"                             -> None
    [] OTHER                                    -> "Changed"

\* a raw commit with an empty subject or a subject starting with `Merge `
IsIgnored(raw) ==
  \/ raw.subject = <<>>
  \/ Len(raw.subject) >= 2 /\ raw.subject[1] = "Merge" /\ raw.subject[2] = SP

\* the display line of a parsed commit
DisplayLine(c) == c.subject \o (IF c.pr = None THEN <<>> ELSE <<SP, "[#", c.pr, "]">>)

\* the display lines of the commits of raw that are routed to category cat,
\* in input order
RECURSIVE RoutedLines(_, _)
RoutedLines(raw, cat) ==
  IF raw = <<>> THEN <<>>
  ELSE (IF ~IsIgnored(Head(raw)) /\ RoutedTo(parse_commit_message(Head(raw)).type) = cat
        THEN <<DisplayLine(parse_commit_message(Head(raw)))>> ELSE <<>>)
       \o RoutedLines(Tail(raw), cat)

\* C13: once the commits are grouped, each category holds exactly the lines
\* of the commits whose type is routed to it ({feat, add} -> Added; {fix,
\* bugfix} -> Fixed; {refactor, perf, improve} -> Changed; remove -> Removed;
\* security -> Security; deprecate -> Deprecated; docs, test, chore, style
\* and ignore -> none; any other type -> Changed), in input order, so a
\* commit is in at most one category and an ignored commit in none.
C13_RoutedByType ==
  pc = "classified" =>
    \A cat \in Categories : changes.cats[cat] = RoutedLines(commits.log, cat)

C13_Witness ==
  /\ pc = "classified"
  /\ commits.log = <<Typed("perf"), Typed("ci")>>
  /\ changes.cats["Changed"] = <<(<<"perf", SP, "login">>), (<<"ci", SP, "login">>)>>

\* ------------------------------------------- pull-request marker (C14)

\* C14: for the commits `feat: add login`, `fix: crash on start #42`,
\* `docs: typo` the category bucket is exactly Added: ["add login"],
\* Fixed: ["crash on start [#42]"], every other category empty.
C14_ScenarioBucket ==
  (pc = "classified" /\ commits.ok /\ commits.log = ScenarioLog) =>
    changes.cats =
      [NoChanges EXCEPT
         !["Added"] = <<(<<"add", SP, "login">>)>>,
         !["Fixed"] = <<(<<"crash", SP, "on", SP, "start", SP, "[#", "42", "]">>)>>]

\* --------------------------------------------- frame of the splice (C15)

\* the lines of ls that are not `[Unreleased]: ` link lines, in order
RECURSIVE OtherLines(_)
OtherLines(ls) ==
  IF ls = <<>> THEN <<>>
  ELSE (IF IsLinkLine(Head(ls)) THEN <<>> ELSE <<Head(ls)>>) \o OtherLines(Tail(ls))

\* a occurs in b as a subsequence: its elements, in order, gaps allowed
RECURSIVE IsSubsequence(_, _)
IsSubsequence(a, b) ==
  IF a = <<>> THEN TRUE
  ELSE IF b = <<>> THEN FALSE
  ELSE IF Head(a) = Head(b) THEN IsSubsequence(Tail(a), Tail(b))
  ELSE IsSubsequence(a, Tail(b))

\* C15: after a successful splice every line of the document as it was, other
\* than its `[Unreleased]: ` link lines, is in the result unchanged and in
\* the same relative order, and the lines of the inserted entry are in the
\* result, consecutive and exactly as formatted.
C15_SpliceFrame ==
  (log # <<>> /\ Last.wrote) =>
    /\ IsSubsequence(OtherLines(Lines(prev)), Lines(file))
    /\ Find(file, 1, Last.entry) > 0

====
